---- MODULE Spec2Model ----
(***************************************************************************)
(* The optimistic message synchronisation of the chat client              *)
(* (ChatterBoxApp, src/unnamed/part_001).                                 *)
(*                                                                         *)
(* The state is the React state of ChatterBoxApp (chats, selectedChatId,   *)
(* availableUsers, isLoadingData), whether the socket listeners of the     *)
(* mount effect are still registered, the requests whose acknowledgement   *)
(* callback has not run yet, the mark_as_read and logout events the last   *)
(* step emitted, the global socket reference with the sockets opened and   *)
(* not closed, the state of the chat view (ChatInterface: isCalling,       *)
(* callStartTime and its timers), and the part of the server the client's  *)
(* events refer to (its chats, the messages it has given an id and the     *)
(* users it holds online).                                                 *)
(*                                                                         *)
(* A logout (handleLogout of ChatterBoxAppContainer) unmounts              *)
(* ChatterBoxApp; a login of the same user mounts it again.                *)
(*                                                                         *)
(* The user operations are the callbacks ChatterBoxApp hands to the        *)
(* rendering layer (handleSendMessage, handleStartCall, handleEndCall,     *)
(* handleSelectChat, handleCreateGroup).  Sends and calls are modelled     *)
(* with the guards of their own bodies, for the id of any chat there is,   *)
(* in the store or at the server: which of them the rendering layer        *)
(* passes is not part of the synchronisation engine.                       *)
(* handleSelectChat is called with the id of a chat of the list, as its    *)
(* two call sites do.  CallSpec is the session in which the calls are      *)
(* those of the chat view: started and ended for the chat on screen, by    *)
(* its buttons and by its 15-second timer.                                 *)
(*                                                                         *)
(* The socket listeners are registered by the first run of the effect at   *)
(* lines 119-384.  Every later run of that effect (a change of             *)
(* selectedChatId or of the currentUser object) first runs the cleanup,    *)
(* which removes all listeners (socket.off, lines 368-377), and then finds *)
(* socketRef.current set and registers nothing (line 133).  Acknowledgement*)
(* callbacks are not listeners and keep running.                           *)
(*                                                                         *)
(* Math.random() in the temporary id of a text/media message is modelled   *)
(* as a nonce that does not repeat; Date.now() is the model clock "now",   *)
(* which two operations may read without a tick in between.                *)
(*                                                                         *)
(* Spec and FairSpec are the runs of size at most MaxSizeShort, LongSpec   *)
(* and CallSpec the runs of size at most MaxSize; LongSpec is for the      *)
(* properties whose case takes four steps of a run to come about.          *)
(***************************************************************************)
EXTENDS Integers, Sequences, FiniteSets, TLC

VARIABLES
    chats,          \* useState<Chat[]>, line 108
    selectedChatId, \* useState<string | null>, line 109
    availableUsers, \* useState<User[]>, line 112: the known users, with isOnline
    markRead,       \* the mark_as_read emissions of the last step, by chat id
    listening,      \* the listeners of lines 141-355 are registered
    connected,      \* the transport is connected
    pending,        \* emitted requests whose acknowledgement callback has not run
    bootReq,        \* request_initial_data emissions the server has not answered
    srvChats,       \* server: the chats of this user, in creation order
    issued,         \* server: the messages it has given an id, by id
    srvOnline,      \* server: the other users it holds online
    nPresence,      \* number of changes of presence so far
    now,            \* Date.now() / new Date()
    nLocal,         \* number of local ids allocated so far
    nLost,          \* number of times the connection was lost so far
    socketRef,      \* socketRef.current, line 31: the socket of the session
    sockets,        \* the sockets io() has opened and disconnect() has not closed
    nSockets,       \* number of sockets io() has opened so far
    logoutSent,     \* the logout emissions of the last step, by user id
    isLoadingData,  \* useState(true), line 115: the initial data is awaited
    isCalling,      \* ChatInterface: useState(false), line 22
    callStartTime,  \* ChatInterface: useState<Date | null>(null), line 24
    timers,         \* ChatInterface: the setTimeout callbacks of line 37 that
                    \* have not run, oldest first, each with the chat and
                    \* the callStartTime of the render that set it
    limit           \* the size the run may reach

vars == <<chats, selectedChatId, availableUsers, markRead, listening,
          connected, pending, bootReq, srvChats, issued, srvOnline,
          nPresence, now, nLocal, nLost, socketRef, sockets, nSockets,
          logoutSent, isLoadingData, isCalling, callStartTime, timers,
          limit>>

\* The state of ChatInterface
chatView == <<isCalling, callStartTime, timers>>

----------------------------------------------------------------------------
(* Bounds of the model *)

\* The size of a run: the chats the server has created or been asked for,
\* the local ids allocated, the messages the server has given an id, the
\* changes of presence and the losses of the connection.  MaxSizeShort is
\* the size of the runs of Spec and FairSpec, MaxSize that of the runs of
\* LongSpec and CallSpec.
MaxSizeShort == 3
MaxSize == 4
\* The last reading of the clock.
MaxClock == 2
\* The request_initial_data emissions the server has not answered.
MaxBoot == 2

\* The chat ids, in the order in which the server creates chats.
ChatSeq == <<"c1", "c2", "c3">>
ChatIds == {ChatSeq[i] : i \in 1..Len(ChatSeq)}
NoChat == "none"
\* socketRef.current === null
NoSocket == 0
\* callStartTime === null
NoTime == 0

Me == "me"
Other == "u2"
UserIds == {Me, Other}

\* User of '@/types' as far as presence goes.
User(id, isOnline) == [id |-> id, isOnline |-> isOnline]
\* initialAvailableUsers (lines 23-28): the fallback list, all offline; the
\* user of this session is one who is not in it.
InitialAvailableUsers == <<User(Other, FALSE)>>

----------------------------------------------------------------------------
(* Data *)

\* `temp_${Date.now()}_${random}`, `call_start_${Date.now()}`,
\* `call_end_${Date.now()}`: the prefix, the clock reading, the random part.
TempId(t, n) == <<"temp_", t, n>>
CallStartId(t) == <<"call_start_", t, 0>>
CallEndId(t) == <<"call_end_", t, 0>>
\* An id given by the server: the k-th message it accepted.
ServerId(k) == <<"srv", 0, k>>
NoId == <<"none", 0, 0>>

IsLocalId(id) == id[1] \in {"temp_", "call_start_", "call_end_"}

\* Message of '@/types' as this file uses it; status "none" is a missing
\* status field, error "" a missing error field.
Msg(id, sender, content, ts, type, status, error) ==
    [id |-> id, sender |-> sender, content |-> content, ts |-> ts,
     type |-> type, status |-> status, error |-> error]

\* lastMessage === undefined
NoMessage == Msg(NoId, "none", "", 0, "none", "none", "")

\* participants: the users of the chat, each a copy with its own isOnline
Chat(id, messages, lastMessage, unreadCount, participants) ==
    [id |-> id, messages |-> messages, lastMessage |-> lastMessage,
     unreadCount |-> unreadCount, participants |-> participants]

Range(s) == {s[i] : i \in 1..Len(s)}
ChatIdsOf(cs) == {cs[i].id : i \in 1..Len(cs)}
HasChat(cs, c) == c \in ChatIdsOf(cs)
\* prevChats.findIndex(chat => chat.id === chatId), 1-based; 0 when absent
FindIndex(cs, c) ==
    IF HasChat(cs, c) THEN CHOOSE i \in 1..Len(cs) :
                              /\ cs[i].id = c
                              /\ \A j \in 1..(i - 1) : cs[j].id # c
    ELSE 0
ChatOf(cs, c) == cs[FindIndex(cs, c)]
MsgIds(ch) == {ch.messages[i].id : i \in 1..Len(ch.messages)}
\* messages.find(m => m.id === id), NoMessage when there is none
FindMsg(ms, id) ==
    IF \E i \in 1..Len(ms) : ms[i].id = id
    THEN ms[CHOOSE i \in 1..Len(ms) :
               /\ ms[i].id = id
               /\ \A j \in 1..(i - 1) : ms[j].id # id]
    ELSE NoMessage
\* arr.filter(...).pop(): the last element, undefined when empty
LastOf(ms) == IF ms = <<>> THEN NoMessage ELSE ms[Len(ms)]
\* prevChats.filter(c => c.id !== id)
WithoutChat(cs, c) == SelectSeq(cs, LAMBDA ch : ch.id # c)
\* A variant of MoveToFront that exchanges the chat with the first one
\* instead of shifting the chats before it; C9 must tell it from MoveToFront.
MoveToFrontSwap(cs, i, front) ==
    [j \in 1..Len(cs) |-> IF j = 1 THEN front
                          ELSE IF j = i THEN cs[1] ELSE cs[j]]

\* [...prevChats.slice(0, i), ...prevChats.slice(i + 1)], put behind `front`
MoveToFront(cs, i, front) ==
    <<front>> \o SubSeq(cs, 1, i - 1) \o SubSeq(cs, i + 1, Len(cs))
\* prevChats.map(chat => chat.id === c ? upd : chat), upd a function from
\* the indices of cs to the chats that replace the chats with id c
MapChat(cs, c, upd) ==
    [i \in 1..Len(cs) |-> IF cs[i].id = c THEN upd[i] ELSE cs[i]]
\* messages.map(m => m.id === id ? upd : m), upd a function from the indices
\* of ms to the messages that replace the messages with that id
MapMsgs(ms, id, upd) ==
    [j \in 1..Len(ms) |-> IF ms[j].id = id THEN upd[j] ELSE ms[j]]

----------------------------------------------------------------------------
(* The server, as far as the client's events show it *)

\* The message the server holds under id k, as it sends it to clients.
SrvMsg(iss, k) ==
    Msg(ServerId(k), iss[k].sender, iss[k].content, iss[k].ts, iss[k].type,
        "sent", "")

RECURSIVE SrvMsgsFrom(_, _, _)
SrvMsgsFrom(iss, c, k) ==
    IF k > Len(iss) THEN <<>>
    ELSE (IF iss[k].chat = c THEN <<SrvMsg(iss, k)>> ELSE <<>>)
         \o SrvMsgsFrom(iss, c, k + 1)

\* The unread count the server holds for this user in chat c: the messages
\* of the other participants, as long as no mark_as_read has reached it.
SrvUnread(iss, c) ==
    Cardinality({k \in 1..Len(iss) : iss[k].chat = c /\ iss[k].sender # Me})

\* The participants of a chat as the server sends them: this user and the
\* other one, online as the server holds them in `online`.
SrvParticipants(online) ==
    <<User(Me, Me \in online), User(Other, Other \in online)>>

\* The chat c as the server sends it in initial_data, group_created,
\* direct_chat_started and the create_group acknowledgement, with the users
\* it holds online in `online`.
SrvChat(iss, c, online) ==
    LET ms == SrvMsgsFrom(iss, c, 1)
    IN  Chat(c, ms, LastOf(ms), SrvUnread(iss, c), SrvParticipants(online))

SrvSnapshot(sc, iss, online) ==
    [i \in 1..Len(sc) |-> SrvChat(iss, sc[i], online)]

----------------------------------------------------------------------------
(* The chat store: what each handler's setChats updater computes *)

\* lastMessage?.timestamp ? new Date(...).getTime() : 0   (lines 179-180)
ActivityTime(ch) == IF ch.lastMessage = NoMessage THEN 0 ELSE ch.lastMessage.ts

\* Array.prototype.sort with (a, b) => timeB - timeA: stable, descending.
RECURSIVE InsertByTime(_, _)
InsertByTime(s, ch) ==
    IF s = <<>> THEN <<ch>>
    ELSE IF ActivityTime(Head(s)) >= ActivityTime(ch)
         THEN <<Head(s)>> \o InsertByTime(Tail(s), ch)
         ELSE <<ch>> \o s

RECURSIVE SortChats(_)
SortChats(s) ==
    IF s = <<>> THEN <<>>
    ELSE InsertByTime(SortChats(SubSeq(s, 1, Len(s) - 1)), s[Len(s)])

\* A variant of OptimisticSend that updates the chat where it stands; C4 must
\* tell it from OptimisticSend.
OptimisticSendInPlace(cs, c, m) ==
    MapChat(cs, c, [i \in 1..Len(cs) |->
                       [cs[i] EXCEPT !.messages = Append(@, m),
                                     !.lastMessage = m,
                                     !.unreadCount = 0]])

\* handleSendMessage, the optimistic update (lines 454-480)
OptimisticSend(cs, c, m) ==
    IF ~HasChat(cs, c) THEN cs
    ELSE LET i == FindIndex(cs, c)
             updatedChat == [cs[i] EXCEPT !.messages = Append(@, m),
                                          !.lastMessage = m,
                                          !.unreadCount = 0]
         IN  MoveToFront(cs, i, updatedChat)

\* handleStartCall / handleEndCall, the optimistic update (lines 556-573, 599-616)
OptimisticCall(cs, c, m) ==
    IF ~HasChat(cs, c) THEN cs
    ELSE LET i == FindIndex(cs, c)
             updatedChat == [cs[i] EXCEPT !.messages = Append(@, m),
                                          !.lastMessage = m]
         IN  MoveToFront(cs, i, updatedChat)

\* A variant of AckSendSuccess that swaps the id in the messages only and
\* leaves lastMessage as it is; C6 must tell it from AckSendSuccess.
AckSendSuccessStaleLast(cs, c, tempId, messageId) ==
    MapChat(cs, c, [i \in 1..Len(cs) |->
        [cs[i] EXCEPT !.messages =
            MapMsgs(cs[i].messages, tempId,
                    [j \in 1..Len(cs[i].messages) |->
                        [cs[i].messages[j] EXCEPT !.id = messageId,
                                                  !.status = "delivered"]])]])

\* A variant of AckSendSuccess that makes the confirmed message the
\* lastMessage whatever the lastMessage was; C25 must tell it from
\* AckSendSuccess.
AckSendSuccessTakesLast(cs, c, tempId, messageId) ==
    LET upd(ch) ==
          LET updatedMessages ==
                MapMsgs(ch.messages, tempId,
                        [j \in 1..Len(ch.messages) |->
                            [ch.messages[j] EXCEPT !.id = messageId,
                                                   !.status = "delivered"]])
              found == FindMsg(updatedMessages, messageId)
          IN  [ch EXCEPT !.messages = updatedMessages,
                         !.lastMessage = IF found # NoMessage THEN found
                                         ELSE ch.lastMessage]
    IN  MapChat(cs, c, [i \in 1..Len(cs) |-> upd(cs[i])])

\* send_message acknowledged with {success: true, messageId} (lines 488-508)
AckSendSuccess(cs, c, tempId, messageId) ==
    LET upd(ch) ==
          LET updatedMessages ==
                MapMsgs(ch.messages, tempId,
                        [j \in 1..Len(ch.messages) |->
                            [ch.messages[j] EXCEPT !.id = messageId,
                                                   !.status = "delivered"]])
              found == FindMsg(updatedMessages, messageId)
              updatedLastMessage ==
                IF ch.lastMessage.id = tempId
                THEN (IF found # NoMessage THEN found ELSE ch.lastMessage)
                ELSE ch.lastMessage
          IN  [ch EXCEPT !.messages = updatedMessages,
                         !.lastMessage = updatedLastMessage]
    IN  MapChat(cs, c, [i \in 1..Len(cs) |-> upd(cs[i])])

\* ack.error || "Failed to send"   (line 517)
ErrorText(err) == IF err = "" THEN "Failed to send" ELSE err

\* A variant of AckSendFailure that marks the message and leaves lastMessage
\* as it is; C5 must tell it from AckSendFailure.
AckSendFailureKeepLast(cs, c, tempId, err) ==
    MapChat(cs, c, [i \in 1..Len(cs) |->
        [cs[i] EXCEPT !.messages =
            MapMsgs(cs[i].messages, tempId,
                    [j \in 1..Len(cs[i].messages) |->
                        [cs[i].messages[j] EXCEPT !.status = "none",
                                                  !.error = ErrorText(err)]])]])

\* send_message acknowledged without success (lines 512-531)
AckSendFailure(cs, c, tempId, err) ==
    LET upd(ch) ==
          LET revertedMessages ==
                MapMsgs(ch.messages, tempId,
                        [j \in 1..Len(ch.messages) |->
                            [ch.messages[j] EXCEPT !.status = "none",
                                                   !.error = ErrorText(err)]])
              lastValidMessage ==
                LastOf(SelectSeq(revertedMessages, LAMBDA m : m.id # tempId))
              revertedLastMessage ==
                IF ch.lastMessage.id = tempId THEN lastValidMessage
                ELSE ch.lastMessage
          IN  [ch EXCEPT !.messages = revertedMessages,
                         !.lastMessage = revertedLastMessage]
    IN  MapChat(cs, c, [i \in 1..Len(cs) |-> upd(cs[i])])

\* start_call / end_call acknowledged with success (lines 577, 620)
AckCallSuccess(cs, c, tempId, messageId) ==
    LET upd(ch) ==
          [ch EXCEPT !.messages =
              MapMsgs(ch.messages, tempId,
                      [j \in 1..Len(ch.messages) |->
                          [ch.messages[j] EXCEPT !.id = messageId]])]
    IN  MapChat(cs, c, [i \in 1..Len(cs) |-> upd(cs[i])])

\* A variant of ReceiveIntoChat that marks the chat unread instead of
\* counting the arrival; C12 must tell it from ReceiveIntoChat.
ReceiveIntoChatUnreadOne(cs, c, newMessage, sel) ==
    LET upd(ch) ==
          IF newMessage.id \in MsgIds(ch) THEN ch
          ELSE [ch EXCEPT !.messages = Append(@, newMessage),
                          !.lastMessage = newMessage,
                          !.unreadCount = IF ch.id = sel THEN 0 ELSE 1]
        updatedChats == MapChat(cs, c, [i \in 1..Len(cs) |-> upd(cs[i])])
        i == FindIndex(updatedChats, c)
    IN  MoveToFront(updatedChats, i, updatedChats[i])

\* receive_message, the setChats updater for a chat in the list (lines 222-256)
ReceiveIntoChat(cs, c, newMessage, sel) ==
    LET upd(ch) ==
          IF newMessage.id \in MsgIds(ch) THEN ch
          ELSE [ch EXCEPT !.messages = Append(@, newMessage),
                          !.lastMessage = newMessage,
                          !.unreadCount = IF ch.id = sel THEN 0 ELSE @ + 1]
        updatedChats == MapChat(cs, c, [i \in 1..Len(cs) |-> upd(cs[i])])
        i == FindIndex(updatedChats, c)
    IN  MoveToFront(updatedChats, i, updatedChats[i])

\* A variant of StatusUpdate that adds the message to the chat when the chat
\* has no message with the id; C31 must tell it from StatusUpdate.
StatusUpdateCreates(cs, c, messageId, status) ==
    LET upd(ch) ==
          [ch EXCEPT !.messages =
              IF \E j \in 1..Len(ch.messages) : ch.messages[j].id = messageId
              THEN MapMsgs(ch.messages, messageId,
                           [j \in 1..Len(ch.messages) |->
                               [ch.messages[j] EXCEPT !.status = status]])
              ELSE Append(ch.messages,
                          Msg(messageId, Other, "", 0, "text", status, ""))]
    IN  MapChat(cs, c, [i \in 1..Len(cs) |-> upd(cs[i])])

\* message_status_update (lines 268-281)
StatusUpdate(cs, c, messageId, status) ==
    LET upd(ch) ==
          [ch EXCEPT !.messages =
              MapMsgs(ch.messages, messageId,
                      [j \in 1..Len(ch.messages) |->
                          [ch.messages[j] EXCEPT !.status = status]])]
    IN  MapChat(cs, c, [i \in 1..Len(cs) |-> upd(cs[i])])

\* group_created (lines 307-314)
GroupCreatedStore(cs, newChat) ==
    IF HasChat(cs, newChat.id) THEN cs ELSE <<newChat>> \o cs

\* A variant of DirectChatStartedStore that adds the chat without looking for
\* it in the list; C16 must tell it from DirectChatStartedStore.
DirectChatStartedStorePrepend(cs, newChat) == <<newChat>> \o cs

\* A variant of DirectChatStartedStore that moves a chat of the list to the
\* front and does not add one the list has not; C36 must tell it from
\* DirectChatStartedStore.
DirectChatStartedStoreKnown(cs, newChat) ==
    IF HasChat(cs, newChat.id)
    THEN <<newChat>> \o WithoutChat(cs, newChat.id)
    ELSE cs

\* direct_chat_started (lines 324-335)
DirectChatStartedStore(cs, newChat) ==
    IF HasChat(cs, newChat.id)
    THEN <<newChat>> \o WithoutChat(cs, newChat.id)
    ELSE <<newChat>> \o cs

\* A variant of CreateGroupAckStore that adds the group without looking for
\* it in the list; C15 must tell it from CreateGroupAckStore.
CreateGroupAckStorePrepend(cs, newChat) == <<newChat>> \o cs

\* create_group acknowledged with success (lines 649-659)
CreateGroupAckStore(cs, newChat) ==
    IF HasChat(cs, newChat.id)
    THEN <<newChat>> \o WithoutChat(cs, newChat.id)
    ELSE <<newChat>> \o cs

\* A variant of SelectAfterInitialData that selects the first chat of a
\* list that is not empty whatever is selected; C35 must tell it from
\* SelectAfterInitialData.
SelectAfterInitialDataFirst(sortedChats, sel) ==
    IF Len(sortedChats) > 0 THEN sortedChats[1].id ELSE NoChat

\* initial_data, the selection (lines 207-212): the first chat when none is
\* selected, none when the list is empty, sel being the selectedChatId the
\* listener reads
SelectAfterInitialData(sortedChats, sel) ==
    IF Len(sortedChats) > 0 /\ sel = NoChat
    THEN sortedChats[1].id
    ELSE IF Len(sortedChats) = 0 THEN NoChat
    ELSE sel

\* handleSelectChat, the setChats updater (lines 391-401)
SelectChatStore(cs, c) ==
    MapChat(cs, c, [i \in 1..Len(cs) |->
                       IF cs[i].unreadCount > 0
                       THEN [cs[i] EXCEPT !.unreadCount = 0] ELSE cs[i]])

\* A variant of SelectChatEmits that notifies the server whether or not the
\* chat had unread messages; C13 must tell it from SelectChatEmits.
SelectChatEmitsAlways(cs, c) ==
    LET hit == SelectSeq(cs, LAMBDA ch : ch.id = c)
    IN  [i \in 1..Len(hit) |-> hit[i].id]

\* handleSelectChat, the mark_as_read emissions of the updater (line 396):
\* one for every chat with this id and a positive unreadCount
SelectChatEmits(cs, c) ==
    LET hit == SelectSeq(cs, LAMBDA ch : ch.id = c /\ ch.unreadCount > 0)
    IN  [i \in 1..Len(hit) |-> hit[i].id]

\* A variant of PresenceFromSnapshot that keeps the flags of the listed users
\* and does not look at onlineUsers; C19 must tell it from
\* PresenceFromSnapshot.
PresenceFromSnapshotAsListed(allUsers, onlineUsers) ==
    LET listed == IF Len(allUsers) > 0 THEN allUsers
                  ELSE InitialAvailableUsers
        baseUsers == IF \E i \in 1..Len(listed) : listed[i].id = Me
                     THEN listed
                     ELSE Append(listed, User(Me, TRUE))
    IN  [i \in 1..Len(baseUsers) |->
            [baseUsers[i] EXCEPT
                !.isOnline = baseUsers[i].isOnline \/ baseUsers[i].id = Me]]

\* initial_data, the new availableUsers (lines 186-201): the server's users,
\* or the fallback when it sends none, with the user of this session added
\* when missing; online who is in onlineUsers, and the user of this session.
PresenceFromSnapshot(allUsers, onlineUsers) ==
    LET listed == IF Len(allUsers) > 0 THEN allUsers
                  ELSE InitialAvailableUsers
        baseUsers == IF \E i \in 1..Len(listed) : listed[i].id = Me
                     THEN listed
                     ELSE Append(listed, User(Me, TRUE))
    IN  [i \in 1..Len(baseUsers) |->
            [baseUsers[i] EXCEPT
                !.isOnline = baseUsers[i].id \in onlineUsers
                                \/ baseUsers[i].id = Me]]

\* user_status_update, the new availableUsers (lines 288-290)
PresenceUpdate(us, userId, isOnline) ==
    [i \in 1..Len(us) |-> IF us[i].id = userId
                          THEN [us[i] EXCEPT !.isOnline = isOnline]
                          ELSE us[i]]

\* A variant of ParticipantStatus that updates the copies of the first chat
\* only; C33 must tell it from ParticipantStatus.
ParticipantStatusFirst(cs, userId, isOnline) ==
    [i \in 1..Len(cs) |->
        IF i = 1
        THEN [cs[i] EXCEPT !.participants =
                 PresenceUpdate(cs[i].participants, userId, isOnline)]
        ELSE cs[i]]

\* user_status_update, the new chats (lines 292-297): the copies of the
\* user among the participants of every chat
ParticipantStatus(cs, userId, isOnline) ==
    [i \in 1..Len(cs) |->
        [cs[i] EXCEPT !.participants =
            PresenceUpdate(cs[i].participants, userId, isOnline)]]

----------------------------------------------------------------------------
(* State after ChatterBoxApp has mounted and its effect has run once *)

\* An emitted request with an acknowledgement callback.  sid is the id the
\* server has given the message when it has already sent the message out to
\* the chat's participants, 0 before that.  Every emission has a callback
\* of its own: n tells apart the requests of emissions with the same
\* arguments, it is the least number no such request has.
Request(kind, c, m) ==
    LET taken == {q.n : q \in {p \in pending : /\ p.kind = kind
                                                /\ p.chat = c
                                                /\ p.msg = m}}
    IN  [kind |-> kind, chat |-> c, msg |-> m, sid |-> 0,
         n |-> CHOOSE n \in 0..MaxSize :
                  n \notin taken /\ \A k \in 0..(n - 1) : k \in taken]

\* The state after construction, of a run that may reach the size n.
InitOf(n) ==
    /\ chats = <<>>
    /\ selectedChatId = NoChat
    /\ availableUsers = InitialAvailableUsers
    /\ markRead = <<>>
    /\ listening = TRUE
    /\ connected = FALSE
    /\ pending = {}
    /\ bootReq = 0
    /\ srvChats = <<>>
    /\ issued = <<>>
    /\ srvOnline = {}
    /\ nPresence = 0
    /\ now = 1
    /\ nLocal = 0
    /\ nLost = 0
    /\ socketRef = 1
    /\ sockets = {1}
    /\ nSockets = 1
    /\ logoutSent = <<>>
    /\ isLoadingData = TRUE
    /\ isCalling = FALSE
    /\ callStartTime = NoTime
    /\ timers = <<>>
    /\ limit = n

\* The state after construction of a run that may reach MaxSizeShort.
Init == InitOf(MaxSizeShort)

\* The state after construction of a run that may reach MaxSize.
LongInit == InitOf(MaxSize)

\* The effect of lines 119-384 runs again when selectedChatId or the
\* currentUser object changed: cleanup removes the listeners (lines 364-381)
\* and line 133 registers none, the socket being there already.
ListenersAfter(newSelected, userReplaced) ==
    listening /\ newSelected = selectedChatId /\ ~userReplaced

\* isLoadingData after a handler that leaves it `loading`: a run of the
\* effect after the handler, for a new selectedChatId or a new currentUser
\* object, sets it (line 129).
LoadingAfter(newSelected, userReplaced, loading) ==
    IF newSelected # selectedChatId \/ userReplaced THEN TRUE ELSE loading

\* A variant of EffectSetup that opens a socket on every run of the effect;
\* C27 must tell it from EffectSetup.
EffectSetupAlways ==
    /\ socketRef' = nSockets + 1
    /\ sockets' = sockets \cup {nSockets + 1}
    /\ nSockets' = nSockets + 1

\* The effect's connection setup (lines 132-139): io() only when
\* socketRef.current is null.
EffectSetup ==
    /\ socketRef' = IF socketRef = NoSocket THEN nSockets + 1 ELSE socketRef
    /\ sockets' = IF socketRef = NoSocket THEN sockets \cup {nSockets + 1}
                  ELSE sockets
    /\ nSockets' = IF socketRef = NoSocket THEN nSockets + 1 ELSE nSockets

\* The server's record of a message it accepts.
Issue(c, m) ==
    [chat |-> c, sender |-> m.sender, content |-> m.content, ts |-> m.ts,
     type |-> m.type]

\* What a run has used of its limit; every step that creates or asks for a
\* chat, allocates a local id, issues a server id, changes a user's presence,
\* loses the connection or logs out needs room.
Size ==
    Len(srvChats) + nLocal + Len(issued) + nLost + nPresence
    + (nSockets - Cardinality(sockets))
    + Cardinality({r \in pending : r.kind = "create_group" /\ r.chat = NoChat})
Room == Size < limit

\* The next chat the server creates, NoChat when it has created all.
NextChat == IF Len(srvChats) < Len(ChatSeq) THEN ChatSeq[Len(srvChats) + 1]
            ELSE NoChat

----------------------------------------------------------------------------
(* User operations *)

\* handleSendMessage (lines 436-540), called with the id of a chat that the
\* store or the server has.
HandleSendMessage(c) ==
    /\ Room
    /\ c \in Range(srvChats) \/ HasChat(chats, c)
    /\ socketRef # NoSocket
    /\ LET tempId == TempId(now, nLocal + 1)
           newMessage == Msg(tempId, Me, "hi", now, "text", "sent", "")
       IN  /\ chats' = OptimisticSend(chats, c, newMessage)
           /\ pending' = pending \cup {Request("send_message", c, newMessage)}
    /\ nLocal' = nLocal + 1
    /\ UNCHANGED <<selectedChatId, listening, connected, bootReq, srvChats,
                   issued, now, nLost>>
    /\ markRead' = <<>>
    /\ UNCHANGED <<availableUsers, srvOnline, nPresence>>
    /\ logoutSent' = <<>>
    /\ UNCHANGED isLoadingData
    /\ UNCHANGED limit
    /\ UNCHANGED chatView
    /\ UNCHANGED <<socketRef, sockets, nSockets>>

\* handleStartCall (lines 543-584), which ChatInterface gets as onStartCall
OnStartCall(c) ==
    /\ Room
    /\ c \in Range(srvChats) \/ HasChat(chats, c)
    /\ socketRef # NoSocket
    /\ LET tempId == CallStartId(now)
           callStartMessage ==
               Msg(tempId, Me, "audio", now, "call_start", "none", "")
       IN  /\ chats' = OptimisticCall(chats, c, callStartMessage)
           /\ pending' = pending \cup {Request("start_call", c, callStartMessage)}
    /\ nLocal' = nLocal + 1
    /\ UNCHANGED <<selectedChatId, listening, connected, bootReq, srvChats,
                   issued, now, nLost>>
    /\ markRead' = <<>>
    /\ UNCHANGED <<availableUsers, srvOnline, nPresence>>
    /\ logoutSent' = <<>>
    /\ UNCHANGED isLoadingData
    /\ UNCHANGED limit
    /\ UNCHANGED <<socketRef, sockets, nSockets>>

\* handleStartCall called for any chat, the chat view as it is
HandleStartCall(c) ==
    /\ OnStartCall(c)
    /\ UNCHANGED chatView

\* handleEndCall (lines 586-627), which ChatInterface gets as onEndCall
OnEndCall(c) ==
    /\ Room
    /\ c \in Range(srvChats) \/ HasChat(chats, c)
    /\ socketRef # NoSocket
    /\ LET tempId == CallEndId(now)
           callEndMessage ==
               Msg(tempId, Me, "00:15", now, "call_end", "none", "")
       IN  /\ chats' = OptimisticCall(chats, c, callEndMessage)
           /\ pending' = pending \cup {Request("end_call", c, callEndMessage)}
    /\ nLocal' = nLocal + 1
    /\ UNCHANGED <<selectedChatId, listening, connected, bootReq, srvChats,
                   issued, now, nLost>>
    /\ markRead' = <<>>
    /\ UNCHANGED <<availableUsers, srvOnline, nPresence>>
    /\ logoutSent' = <<>>
    /\ UNCHANGED isLoadingData
    /\ UNCHANGED limit
    /\ UNCHANGED <<socketRef, sockets, nSockets>>

\* handleEndCall called for any chat, the chat view as it is
HandleEndCall(c) ==
    /\ OnEndCall(c)
    /\ UNCHANGED chatView

\* handleSelectChat (lines 388-403), called with the id of a chat of the
\* list (ChatList.tsx line 103, and line 424 of this file)
HandleSelectChat(c) ==
    /\ HasChat(chats, c)
    /\ selectedChatId' = c
    /\ chats' = SelectChatStore(chats, c)
    /\ listening' = ListenersAfter(c, FALSE)
    /\ UNCHANGED <<connected, pending, bootReq, srvChats, issued, now, nLocal, nLost>>
    /\ markRead' = SelectChatEmits(chats, c)
    /\ UNCHANGED <<availableUsers, srvOnline, nPresence>>
    /\ EffectSetup
    /\ logoutSent' = <<>>
    /\ isLoadingData' = LoadingAfter(c, FALSE, isLoadingData)
    /\ UNCHANGED limit
    /\ UNCHANGED chatView

\* handleCreateGroup with a name and at least one member (lines 629-673):
\* the emission; the store changes when the acknowledgement arrives.
HandleCreateGroup ==
    /\ Room
    /\ socketRef # NoSocket
    /\ \A r \in pending : r.kind # "create_group"
    /\ pending' = pending \cup {Request("create_group", NoChat, NoMessage)}
    /\ UNCHANGED <<chats, selectedChatId, listening, connected, bootReq,
                   srvChats, issued, now, nLocal, nLost>>
    /\ markRead' = <<>>
    /\ UNCHANGED <<availableUsers, srvOnline, nPresence>>
    /\ logoutSent' = <<>>
    /\ UNCHANGED isLoadingData
    /\ UNCHANGED limit
    /\ UNCHANGED chatView
    /\ UNCHANGED <<socketRef, sockets, nSockets>>

----------------------------------------------------------------------------
(* The acknowledgement callbacks.  The server answers a request with       *)
(* success or with a failure; an answer is an input of the callback.       *)

\* The callback given to socket.emit('send_message', ...) (lines 484-538).
\* outcome "ok" is {success: true, messageId}; any other outcome is
\* {success: false, error: outcome}, "" being an answer without error text.
AckSendMessage(r, outcome) ==
    /\ connected
    /\ r.kind = "send_message"
    /\ IF outcome = "ok"
       THEN /\ r.chat \in Range(srvChats)
            /\ LET k == IF r.sid # 0 THEN r.sid ELSE Len(issued) + 1 IN
                 /\ r.sid # 0 \/ Room
                 /\ issued' = IF r.sid # 0 THEN issued
                              ELSE Append(issued, Issue(r.chat, r.msg))
                 /\ chats' = AckSendSuccess(chats, r.chat, r.msg.id, ServerId(k))
       ELSE /\ r.sid = 0
            /\ chats' = AckSendFailure(chats, r.chat, r.msg.id, outcome)
            /\ UNCHANGED issued
    /\ pending' = pending \ {r}
    /\ UNCHANGED <<selectedChatId, listening, connected, bootReq, srvChats,
                   now, nLocal, nLost>>
    /\ markRead' = <<>>
    /\ UNCHANGED <<availableUsers, srvOnline, nPresence>>
    /\ logoutSent' = <<>>
    /\ UNCHANGED isLoadingData
    /\ UNCHANGED limit
    /\ UNCHANGED chatView
    /\ UNCHANGED <<socketRef, sockets, nSockets>>

\* The callbacks given to socket.emit('start_call' / 'end_call', ...)
\* (lines 574-583, 617-626)
AckCall(r, outcome) ==
    /\ connected
    /\ r.kind \in {"start_call", "end_call"}
    /\ IF outcome = "ok"
       THEN /\ r.chat \in Range(srvChats)
            /\ LET k == IF r.sid # 0 THEN r.sid ELSE Len(issued) + 1 IN
                 /\ r.sid # 0 \/ Room
                 /\ issued' = IF r.sid # 0 THEN issued
                              ELSE Append(issued, Issue(r.chat, r.msg))
                 /\ chats' = AckCallSuccess(chats, r.chat, r.msg.id, ServerId(k))
       ELSE /\ r.sid = 0
            /\ UNCHANGED <<chats, issued>>
    /\ pending' = pending \ {r}
    /\ UNCHANGED <<selectedChatId, listening, connected, bootReq, srvChats,
                   now, nLocal, nLost>>
    /\ markRead' = <<>>
    /\ UNCHANGED <<availableUsers, srvOnline, nPresence>>
    /\ logoutSent' = <<>>
    /\ UNCHANGED isLoadingData
    /\ UNCHANGED limit
    /\ UNCHANGED chatView
    /\ UNCHANGED <<socketRef, sockets, nSockets>>

\* The callback given to socket.emit('create_group', ...) (lines 644-672);
\* ack.newChat is the group as the server created it.
AckCreateGroup(r, outcome) ==
    /\ connected
    /\ r.kind = "create_group"
    /\ IF outcome = "ok"
       THEN LET g == IF r.chat # NoChat THEN r.chat ELSE NextChat IN
            /\ g # NoChat
            /\ srvChats' = IF r.chat # NoChat THEN srvChats
                           ELSE Append(srvChats, g)
            /\ chats' = CreateGroupAckStore(
                          chats, Chat(g, <<>>, NoMessage, 0,
                                      SrvParticipants(srvOnline \cup {Me})))
            /\ selectedChatId' = g
            /\ listening' = ListenersAfter(g, FALSE)
       ELSE /\ r.chat = NoChat
            /\ UNCHANGED <<chats, selectedChatId, listening, srvChats>>
    /\ pending' = pending \ {r}
    /\ UNCHANGED <<connected, bootReq, issued, now, nLocal, nLost>>
    /\ markRead' = <<>>
    /\ UNCHANGED <<availableUsers, srvOnline, nPresence>>
    /\ EffectSetup
    /\ logoutSent' = <<>>
    /\ isLoadingData' = LoadingAfter(selectedChatId', FALSE, isLoadingData)
    /\ UNCHANGED limit
    /\ UNCHANGED chatView

----------------------------------------------------------------------------
(* Events from the server and the transport.  An event that arrives when   *)
(* the listeners have been removed runs no code: it is no step.            *)

\* socket.on('connect') (lines 141-145)
Connect ==
    /\ socketRef # NoSocket
    /\ ~connected
    /\ connected' = TRUE
    /\ IF listening
       THEN /\ bootReq < MaxBoot
            /\ bootReq' = bootReq + 1
       ELSE UNCHANGED bootReq
    /\ UNCHANGED <<chats, selectedChatId, listening, pending, srvChats,
                   issued, now, nLocal, nLost>>
    /\ markRead' = <<>>
    /\ UNCHANGED <<availableUsers, srvOnline, nPresence>>
    /\ logoutSent' = <<>>
    /\ UNCHANGED isLoadingData
    /\ UNCHANGED limit
    /\ UNCHANGED chatView
    /\ UNCHANGED <<socketRef, sockets, nSockets>>

\* socket.on('disconnect') with a reason other than 'io client disconnect'
\* (lines 147-161); what the server had not answered yet is not answered.
Disconnect ==
    /\ connected
    /\ Room
    /\ nLost' = nLost + 1
    /\ connected' = FALSE
    /\ bootReq' = 0
    /\ IF listening
       THEN /\ chats' = <<>>
            /\ availableUsers' = InitialAvailableUsers
            /\ selectedChatId' = NoChat
            /\ listening' = ListenersAfter(NoChat, FALSE)
       ELSE UNCHANGED <<chats, availableUsers, selectedChatId, listening>>
    /\ markRead' = <<>>
    /\ UNCHANGED <<pending, srvChats, issued, srvOnline, nPresence, now,
                   nLocal>>
    /\ logoutSent' = <<>>
    /\ isLoadingData' = IF listening THEN LoadingAfter(NoChat, FALSE, FALSE)
                      ELSE isLoadingData
    /\ UNCHANGED limit
    /\ UNCHANGED chatView
    /\ UNCHANGED <<socketRef, sockets, nSockets>>

\* socket.on('connect_error') (lines 163-171): an attempt of the socket to
\* connect has failed.
ConnectError ==
    /\ socketRef # NoSocket
    /\ ~connected
    /\ listening
    /\ isLoadingData' = FALSE
    /\ UNCHANGED limit
    /\ UNCHANGED chatView
    /\ UNCHANGED <<chats, selectedChatId, availableUsers, markRead,
                   listening, connected, pending, bootReq, srvChats, issued,
                   srvOnline, nPresence, now, nLocal, nLost, socketRef,
                   sockets, nSockets, logoutSent>>
    /\ UNCHANGED chatView

\* A variant of ServerError that takes the reset of a lost connection; C32
\* must tell it from ServerError.
ServerErrorResets ==
    /\ connected
    /\ listening
    /\ chats' = <<>>
    /\ availableUsers' = InitialAvailableUsers
    /\ UNCHANGED <<selectedChatId, markRead, listening, connected, pending,
                   bootReq, srvChats, issued, srvOnline, nPresence, now,
                   nLocal, nLost, socketRef, sockets, nSockets, logoutSent,
                   isLoadingData, limit>>
    /\ UNCHANGED chatView

\* socket.on('server_error') (lines 348-355)
ServerError ==
    /\ connected
    /\ listening
    /\ UNCHANGED <<chats, selectedChatId, availableUsers, markRead,
                   listening, connected, pending, bootReq, srvChats, issued,
                   srvOnline, nPresence, now, nLocal, nLost, socketRef,
                   sockets, nSockets, logoutSent, isLoadingData, limit>>
    /\ UNCHANGED chatView

\* socket.on('initial_data') (lines 174-214) with data.chats the server's
\* chats of this user, data.allUsers as given and data.onlineUsers the users
\* the server holds online, with or without the user of this session.
\* setCurrentUser at line 204 stores a new object, so the effect runs again
\* after this handler.
InitialData(allUsers, onlineUsers) ==
    /\ connected
    /\ listening
    /\ bootReq > 0
    /\ onlineUsers \ {Me} = srvOnline
    /\ bootReq' = bootReq - 1
    /\ LET sortedChats == SortChats(SrvSnapshot(srvChats, issued, onlineUsers))
           newSelected == SelectAfterInitialData(sortedChats, selectedChatId)
       IN  /\ chats' = sortedChats
           /\ selectedChatId' = newSelected
           /\ listening' = ListenersAfter(newSelected, TRUE)
    /\ availableUsers' = PresenceFromSnapshot(allUsers, onlineUsers)
    /\ markRead' = <<>>
    /\ UNCHANGED <<connected, pending, srvChats, issued, srvOnline,
                   nPresence, now, nLocal, nLost>>
    /\ EffectSetup
    /\ logoutSent' = <<>>
    /\ isLoadingData' = LoadingAfter(selectedChatId', TRUE, FALSE)
    /\ UNCHANGED limit
    /\ UNCHANGED chatView

\* A variant of OnReceiveMessage that drops a message for a chat that is not
\* in the list without asking the server for the chats; C21 must tell it
\* from OnReceiveMessage.
OnReceiveMessageNoRequest(c, k) ==
    /\ IF HasChat(chats, c)
       THEN /\ chats' = ReceiveIntoChat(chats, c, SrvMsg(issued', k),
                                        selectedChatId)
            /\ UNCHANGED bootReq
       ELSE UNCHANGED <<chats, bootReq>>
    /\ markRead' = IF c = selectedChatId THEN <<c>> ELSE <<>>

\* The body of socket.on('receive_message') (lines 218-263) for message k.
OnReceiveMessage(c, k) ==
    /\ IF HasChat(chats, c)
       THEN /\ chats' = ReceiveIntoChat(chats, c, SrvMsg(issued', k),
                                        selectedChatId)
            /\ UNCHANGED bootReq
       ELSE /\ bootReq < MaxBoot
            /\ bootReq' = bootReq + 1
            /\ UNCHANGED chats
    /\ markRead' = IF c = selectedChatId THEN <<c>> ELSE <<>>

\* receive_message for the message the server holds under id k in chat c:
\* one it has sent out before (k issued), or a new message of another
\* participant (k the next id).
ReceiveMessage(c, k) ==
    /\ connected
    /\ listening
    /\ c \in Range(srvChats)
    /\ \/ /\ k \in 1..Len(issued)
          /\ issued[k].chat = c
          /\ UNCHANGED issued
       \/ /\ k = Len(issued) + 1
          /\ Room
          /\ issued' = Append(issued, [chat |-> c, sender |-> Other,
                                       content |-> "yo", ts |-> now,
                                       type |-> "text"])
    /\ OnReceiveMessage(c, k)
    /\ UNCHANGED <<selectedChatId, listening, connected, pending, srvChats,
                   now, nLocal, nLost>>
    /\ UNCHANGED <<availableUsers, srvOnline, nPresence>>
    /\ logoutSent' = <<>>
    /\ UNCHANGED isLoadingData
    /\ UNCHANGED limit
    /\ UNCHANGED chatView
    /\ UNCHANGED <<socketRef, sockets, nSockets>>

\* receive_message for a new message of another participant in a chat of the
\* store, arriving after the cleanup of the effect (lines 364-381) has
\* removed the listener: the server holds the message, no code runs.
ReceiveMessageUnheard(c) ==
    /\ connected
    /\ ~listening
    /\ c \in Range(srvChats)
    /\ HasChat(chats, c)
    /\ Room
    /\ issued' = Append(issued, [chat |-> c, sender |-> Other,
                                 content |-> "yo", ts |-> now,
                                 type |-> "text"])
    /\ markRead' = <<>>
    /\ UNCHANGED <<chats, selectedChatId, availableUsers, listening,
                   connected, pending, bootReq, srvChats, srvOnline,
                   nPresence, now, nLocal, nLost>>
    /\ logoutSent' = <<>>
    /\ UNCHANGED isLoadingData
    /\ UNCHANGED limit
    /\ UNCHANGED chatView
    /\ UNCHANGED <<socketRef, sockets, nSockets>>

\* receive_message for a message of this client that the server has taken
\* and sends to the chat's participants before its acknowledgement arrives.
ReceiveOwnMessage(r) ==
    /\ connected
    /\ listening
    /\ r.kind # "create_group"
    /\ r.sid = 0
    /\ r.chat \in Range(srvChats)
    /\ Room
    /\ issued' = Append(issued, Issue(r.chat, r.msg))
    /\ pending' = (pending \ {r}) \cup {[r EXCEPT !.sid = Len(issued) + 1]}
    /\ OnReceiveMessage(r.chat, Len(issued) + 1)
    /\ UNCHANGED <<selectedChatId, listening, connected, srvChats, now,
                   nLocal, nLost>>
    /\ UNCHANGED <<availableUsers, srvOnline, nPresence>>
    /\ logoutSent' = <<>>
    /\ UNCHANGED isLoadingData
    /\ UNCHANGED limit
    /\ UNCHANGED chatView
    /\ UNCHANGED <<socketRef, sockets, nSockets>>

\* socket.on('message_status_update') (lines 266-282) for a message the
\* server holds in chat c
MessageStatusUpdate(c, k, status) ==
    /\ connected
    /\ listening
    /\ k \in 1..Len(issued)
    /\ issued[k].chat = c
    /\ chats' = StatusUpdate(chats, c, ServerId(k), status)
    /\ UNCHANGED <<selectedChatId, listening, connected, pending, bootReq,
                   srvChats, issued, now, nLocal, nLost>>
    /\ markRead' = <<>>
    /\ UNCHANGED <<availableUsers, srvOnline, nPresence>>
    /\ logoutSent' = <<>>
    /\ UNCHANGED isLoadingData
    /\ UNCHANGED limit
    /\ UNCHANGED chatView
    /\ UNCHANGED <<socketRef, sockets, nSockets>>

\* socket.on('user_status_update') (lines 285-302): the presence of a user
\* has changed and the server tells this client.  For the user of this
\* session setCurrentUser at line 300 stores a new object, so the effect
\* runs again after this handler.
UserStatusUpdate(userId, isOnline) ==
    /\ connected
    /\ listening
    /\ Room
    /\ userId = Me \/ (userId \in srvOnline) # isOnline
    /\ nPresence' = nPresence + 1
    /\ srvOnline' = IF userId = Me THEN srvOnline
                    ELSE IF isOnline THEN srvOnline \cup {userId}
                    ELSE srvOnline \ {userId}
    /\ availableUsers' = PresenceUpdate(availableUsers, userId, isOnline)
    /\ chats' = ParticipantStatus(chats, userId, isOnline)
    /\ listening' = ListenersAfter(selectedChatId, userId = Me)
    /\ markRead' = <<>>
    /\ UNCHANGED <<selectedChatId, connected, pending, bootReq, srvChats,
                   issued, now, nLocal, nLost>>
    /\ EffectSetup
    /\ logoutSent' = <<>>
    /\ isLoadingData' = LoadingAfter(selectedChatId, userId = Me, isLoadingData)
    /\ UNCHANGED limit
    /\ UNCHANGED chatView

\* The presence of another user changes while no listener of this client
\* hears of it.
PresenceChangeUnheard(userId, isOnline) ==
    /\ ~(connected /\ listening)
    /\ Room
    /\ userId # Me
    /\ (userId \in srvOnline) # isOnline
    /\ nPresence' = nPresence + 1
    /\ srvOnline' = IF isOnline THEN srvOnline \cup {userId}
                    ELSE srvOnline \ {userId}
    /\ markRead' = <<>>
    /\ UNCHANGED <<chats, selectedChatId, availableUsers, listening,
                   connected, pending, bootReq, srvChats, issued, now,
                   nLocal, nLost>>
    /\ logoutSent' = <<>>
    /\ UNCHANGED isLoadingData
    /\ UNCHANGED limit
    /\ UNCHANGED chatView
    /\ UNCHANGED <<socketRef, sockets, nSockets>>

\* socket.on('group_created') (lines 305-319): the server tells of a group
\* this user is a member of, an existing one or one just created.
GroupCreated(c) ==
    /\ connected
    /\ listening
    /\ c \in Range(srvChats) \/ (c = NextChat /\ Room)
    /\ srvChats' = IF c \in Range(srvChats) THEN srvChats
                   ELSE Append(srvChats, c)
    /\ chats' = GroupCreatedStore(chats, SrvChat(issued, c, srvOnline \cup {Me}))
    /\ UNCHANGED <<selectedChatId, listening, connected, pending, bootReq,
                   issued, now, nLocal, nLost>>
    /\ markRead' = <<>>
    /\ UNCHANGED <<availableUsers, srvOnline, nPresence>>
    /\ logoutSent' = <<>>
    /\ UNCHANGED isLoadingData
    /\ UNCHANGED limit
    /\ UNCHANGED chatView
    /\ UNCHANGED <<socketRef, sockets, nSockets>>

\* group_created for the group of this client's own create_group request,
\* which the server sends to the members before the acknowledgement arrives.
GroupCreatedOwn(r) ==
    /\ connected
    /\ listening
    /\ r.kind = "create_group"
    /\ r.chat = NoChat
    /\ NextChat # NoChat
    /\ srvChats' = Append(srvChats, NextChat)
    /\ pending' = (pending \ {r}) \cup {[r EXCEPT !.chat = NextChat]}
    /\ chats' = GroupCreatedStore(chats,
                  SrvChat(issued, NextChat, srvOnline \cup {Me}))
    /\ UNCHANGED <<selectedChatId, listening, connected, bootReq, issued,
                   now, nLocal, nLost>>
    /\ markRead' = <<>>
    /\ UNCHANGED <<availableUsers, srvOnline, nPresence>>
    /\ logoutSent' = <<>>
    /\ UNCHANGED isLoadingData
    /\ UNCHANGED limit
    /\ UNCHANGED chatView
    /\ UNCHANGED <<socketRef, sockets, nSockets>>

\* socket.on('direct_chat_started') (lines 322-344)
DirectChatStarted(c) ==
    /\ connected
    /\ listening
    /\ c \in Range(srvChats) \/ (c = NextChat /\ Room)
    /\ srvChats' = IF c \in Range(srvChats) THEN srvChats
                   ELSE Append(srvChats, c)
    /\ chats' = DirectChatStartedStore(chats,
                  SrvChat(issued, c, srvOnline \cup {Me}))
    /\ selectedChatId' = c
    /\ listening' = ListenersAfter(c, FALSE)
    /\ UNCHANGED <<connected, pending, bootReq, issued, now, nLocal, nLost>>
    /\ markRead' = <<>>
    /\ UNCHANGED <<availableUsers, srvOnline, nPresence>>
    /\ EffectSetup
    /\ logoutSent' = <<>>
    /\ isLoadingData' = LoadingAfter(c, FALSE, isLoadingData)
    /\ UNCHANGED limit
    /\ UNCHANGED chatView

\* A variant of HandleLogout that closes the socket and keeps the reference
\* to it; C26 must tell it from HandleLogout.
HandleLogoutKeepsRef ==
    /\ socketRef # NoSocket
    /\ Room
    /\ logoutSent' = IF socketRef # NoSocket THEN <<Me>> ELSE <<>>
    /\ isLoadingData' = TRUE
    /\ UNCHANGED limit
    /\ isCalling' = FALSE
    /\ callStartTime' = NoTime
    /\ UNCHANGED timers
    /\ sockets' = sockets \ {socketRef}
    /\ connected' = FALSE
    /\ listening' = FALSE
    /\ pending' = {}
    /\ bootReq' = 0
    /\ chats' = <<>>
    /\ selectedChatId' = NoChat
    /\ availableUsers' = InitialAvailableUsers
    /\ markRead' = <<>>
    /\ UNCHANGED <<srvChats, issued, srvOnline, nPresence, now, nLocal,
                   nLost, nSockets, socketRef>>

\* handleLogout (lines 67-80), from the logout button of ChatterBoxApp
\* (line 727): the logout notice, socket.disconnect(), the reference reset;
\* setCurrentUser(null) unmounts ChatterBoxApp and its state goes.  The
\* socket's own disconnect event has the reason 'io client disconnect',
\* which the listener of lines 147-161 passes over; nothing arrives on a
\* socket that was closed from here.
HandleLogout ==
    /\ socketRef # NoSocket
    /\ Room
    /\ logoutSent' = IF socketRef # NoSocket THEN <<Me>> ELSE <<>>
    /\ isLoadingData' = TRUE
    /\ UNCHANGED limit
    /\ isCalling' = FALSE
    /\ callStartTime' = NoTime
    /\ UNCHANGED timers
    /\ sockets' = sockets \ {socketRef}
    /\ socketRef' = NoSocket
    /\ connected' = FALSE
    /\ listening' = FALSE
    /\ pending' = {}
    /\ bootReq' = 0
    /\ chats' = <<>>
    /\ selectedChatId' = NoChat
    /\ availableUsers' = InitialAvailableUsers
    /\ markRead' = <<>>
    /\ UNCHANGED <<srvChats, issued, srvOnline, nPresence, now, nLocal,
                   nLost, nSockets>>

\* handleLogin (lines 38-65) for the same user, then the mount of
\* ChatterBoxApp (lines 105-115) and the first run of its effect (lines
\* 119-384), which opens the socket and registers the listeners.
HandleLogin ==
    /\ socketRef = NoSocket
    /\ EffectSetup
    /\ listening' = TRUE
    /\ chats' = <<>>
    /\ selectedChatId' = NoChat
    /\ availableUsers' = InitialAvailableUsers
    /\ markRead' = <<>>
    /\ logoutSent' = <<>>
    /\ isLoadingData' = TRUE
    /\ UNCHANGED limit
    /\ UNCHANGED chatView
    /\ UNCHANGED <<connected, pending, bootReq, srvChats, issued, srvOnline,
                   nPresence, now, nLocal, nLost>>

\* Time passes.
Tick ==
    /\ now < MaxClock
    /\ now' = now + 1
    /\ UNCHANGED <<chats, selectedChatId, listening, connected, pending,
                   bootReq, srvChats, issued, nLocal, nLost>>
    /\ markRead' = <<>>
    /\ UNCHANGED <<availableUsers, srvOnline, nPresence>>
    /\ logoutSent' = <<>>
    /\ UNCHANGED isLoadingData
    /\ UNCHANGED limit
    /\ UNCHANGED chatView
    /\ UNCHANGED <<socketRef, sockets, nSockets>>

----------------------------------------------------------------------------

----------------------------------------------------------------------------
(* The chat view (ChatInterface, src/src/components/chat/ChatInterface.tsx), *)
(* rendered for the selected chat (part_001 lines 704, 817-824)              *)

\* ChatInterface is rendered: the selected chat is in the list.
Mounted == selectedChatId # NoChat /\ HasChat(chats, selectedChatId)

\* A timer set by handleStartCall: the chat and the callStartTime of the
\* render whose handleEndCall the callback calls.
Timer(c, startTime) == [chat |-> c, callStartTime |-> startTime]

\* ChatInterface.handleStartCall (lines 30-40): the state setters, the
\* onStartCall of ChatterBoxApp for the chat rendered, and a timer that
\* calls the handleEndCall of this render.
ChatStartCall ==
    /\ Mounted
    /\ isCalling' = TRUE
    /\ callStartTime' = now
    /\ OnStartCall(selectedChatId)
    /\ timers' = Append(timers, Timer(selectedChatId, callStartTime))

\* ChatInterface.handleEndCall (lines 42-56) of the render on screen, from
\* the End Call button, which is there while isCalling (lines 121-129).
ChatEndCall ==
    /\ Mounted
    /\ isCalling
    /\ callStartTime # NoTime
    /\ OnEndCall(selectedChatId)
    /\ isCalling' = FALSE
    /\ callStartTime' = NoTime
    /\ UNCHANGED timers

\* The oldest timer runs (lines 37-39): handleEndCall of the render that
\* set it, with the callStartTime and the chat of that render.
CallTimer ==
    /\ timers # <<>>
    /\ timers' = Tail(timers)
    /\ IF Head(timers).callStartTime # NoTime
       THEN /\ OnEndCall(Head(timers).chat)
            /\ isCalling' = FALSE
            /\ callStartTime' = NoTime
       ELSE UNCHANGED <<chats, selectedChatId, availableUsers, markRead,
                        listening, connected, pending, bootReq, srvChats,
                        issued, srvOnline, nPresence, now, nLocal, nLost,
                        socketRef, sockets, nSockets, logoutSent,
                        isLoadingData, isCalling, callStartTime, limit>>


Next ==
    \/ \E c \in ChatIds : HandleSendMessage(c)
    \/ \E c \in ChatIds : HandleStartCall(c)
    \/ \E c \in ChatIds : HandleEndCall(c)
    \/ \E c \in ChatIds : HandleSelectChat(c)
    \/ HandleCreateGroup
    \/ \E r \in pending, o \in {"ok", "offline", ""} : AckSendMessage(r, o)
    \/ \E r \in pending, o \in {"ok", ""} : AckCall(r, o)
    \/ \E r \in pending, o \in {"ok", ""} : AckCreateGroup(r, o)
    \/ Connect
    \/ ConnectError
    \/ Disconnect
    \/ ServerError
    \/ \E allUsers \in {<<>>, <<User(Other, FALSE)>>},
          onlineUsers \in SUBSET UserIds : InitialData(allUsers, onlineUsers)
    \/ \E c \in ChatIds, k \in 1..MaxSize : ReceiveMessage(c, k)
    \/ \E c \in ChatIds : ReceiveMessageUnheard(c)
    \/ \E r \in pending : ReceiveOwnMessage(r)
    \/ \E c \in ChatIds, k \in 1..MaxSize, s \in {"delivered", "read"} :
          MessageStatusUpdate(c, k, s)
    \/ \E u \in UserIds, b \in BOOLEAN : UserStatusUpdate(u, b)
    \/ \E u \in UserIds, b \in BOOLEAN : PresenceChangeUnheard(u, b)
    \/ \E c \in ChatIds : GroupCreated(c)
    \/ \E r \in pending : GroupCreatedOwn(r)
    \/ \E c \in ChatIds : DirectChatStarted(c)
    \/ HandleLogout
    \/ HandleLogin
    \/ Tick

Spec == Init /\ [][Next]_vars

\* The same program in runs that may reach MaxSize.
LongSpec == LongInit /\ [][Next]_vars

\* Time passes: the clock is the only thing the code's scheduling promises.
\* No acknowledgement, broadcast or user operation is bound to happen.
FairSpec == Spec /\ WF_vars(Tick)

\* A session with the chat view: chats come in, the user selects one and
\* starts and ends calls in the chat view, the server acknowledges.
CallNext ==
    \/ Connect
    \/ \E c \in ChatIds : GroupCreated(c)
    \/ \E c \in ChatIds : HandleSelectChat(c)
    \/ ChatStartCall
    \/ ChatEndCall
    \/ CallTimer
    \/ \E r \in pending, o \in {"ok", ""} : AckCall(r, o)
    \/ Tick

\* A timer that is set runs (setTimeout), and time passes.
CallSpec == LongInit /\ [][CallNext]_vars /\ WF_vars(CallTimer) /\ WF_vars(Tick)

----------------------------------------------------------------------------
(* Properties of the chat store *)

\* The entries of ms with the given id.
CountId(ms, id) == Cardinality({i \in 1..Len(ms) : ms[i].id = id})
\* The ids of the chats of cs, in the order of cs.
IdOrder(cs) == [i \in 1..Len(cs) |-> cs[i].id]
\* The id the server confirms the request r with.
ConfirmedId(r) == ServerId(IF r.sid # 0 THEN r.sid ELSE Len(issued) + 1)
\* The send_message request r is answered and its message is in the store.
AnswersStored(r) ==
    /\ HasChat(chats, r.chat)
    /\ r.msg.id \in MsgIds(ChatOf(chats, r.chat))

----------------------------------------------------------------------------
\* C1: for a message sent with local id L in chat c whose confirmed id is K,
\* when the receive_message broadcast of K and the success acknowledgement
\* of L are both delivered, in either order, the messages of c hold exactly
\* one entry with id K and none with id L.
C1_AckAfterBroadcast(r) ==
    (/\ AckSendMessage(r, "ok")
     /\ AnswersStored(r)
     /\ r.sid # 0
     /\ ServerId(r.sid) \in MsgIds(ChatOf(chats, r.chat)))
    => LET ms == ChatOf(chats', r.chat).messages
       IN  /\ CountId(ms, ServerId(r.sid)) = 1
           /\ CountId(ms, r.msg.id) = 0

C1_BroadcastAfterAck(c, k) ==
    (/\ ReceiveMessage(c, k)
     /\ k \in 1..Len(issued)
     /\ issued[k].sender = Me
     /\ issued[k].type = "text"
     /\ \A r \in pending : r.sid # k
     /\ HasChat(chats, c)
     /\ ServerId(k) \in MsgIds(ChatOf(chats, c)))
    => LET ms == ChatOf(chats', c).messages
       IN  CountId(ms, ServerId(k)) = 1

C1_DedupUnderReordering ==
    [][/\ \A r \in pending : C1_AckAfterBroadcast(r)
       /\ \A c \in ChatIds, k \in 1..MaxSize : C1_BroadcastAfterAck(c, k)]_vars

----------------------------------------------------------------------------
\* C2: in every reachable state no chat's message list holds two entries
\* with the same id.
C2_NoDuplicateIds ==
    \A i \in 1..Len(chats) :
        \A a, b \in 1..Len(chats[i].messages) :
            a # b => chats[i].messages[a].id # chats[i].messages[b].id

----------------------------------------------------------------------------
\* The status of an entry in the words of the order pending < sent <
\* delivered < read: an entry the failure acknowledgement has marked with an
\* error text is a failed one.
ShownStatus(m) == IF m.error # "" THEN "failed" ELSE m.status

StatusRank(st) ==
    CASE st = "pending" -> 0
      [] st = "sent" -> 1
      [] st = "delivered" -> 2
      [] st = "read" -> 3
      [] OTHER -> 4

\* From status st to status nx is no step back: an entry without a status
\* may take any, any status may give way to failed, failed stays, and the
\* others go up in the order and do not become absent.
StatusForward(st, nx) ==
    \/ st = "none"
    \/ nx = "failed"
    \/ /\ st # "failed"
       /\ nx # "none"
       /\ StatusRank(st) <= StatusRank(nx)

\* A step that is an acknowledgement or a message_status_update.
StatusStep ==
    \/ \E r \in pending, o \in {"ok", "offline", ""} : AckSendMessage(r, o)
    \/ \E r \in pending, o \in {"ok", ""} : AckCall(r, o)
    \/ \E c \in ChatIds, k \in 1..MaxSize, st \in {"delivered", "read"} :
          MessageStatusUpdate(c, k, st)

\* C3: across acknowledgements and message_status_update broadcasts the
\* status of every message only moves forward in pending < sent < delivered
\* < read or diverts to failed: it is never replaced by an earlier one (read
\* followed by a delivered update stays read) and never becomes absent.
C3_StatusForwardOnly ==
    [][StatusStep =>
         \A i \in 1..Len(chats) :
             \A j \in 1..Len(chats[i].messages) :
                 StatusForward(ShownStatus(chats[i].messages[j]),
                               ShownStatus(chats'[i].messages[j]))]_vars

----------------------------------------------------------------------------
\* What a send to the chat c of the store leaves, the new message having
\* status st: c is the first chat, its messages are the former ones and one
\* new last entry, which has a local id no entry and no request had, and
\* which is the lastMessage of c.
SendEffect(c, st) ==
    LET old == ChatOf(chats, c)
        new == chats'[1]
        m == new.messages[Len(new.messages)]
    IN  /\ new.id = c
        /\ Len(new.messages) = Len(old.messages) + 1
        /\ SubSeq(new.messages, 1, Len(old.messages)) = old.messages
        /\ m.id[1] = "temp_"
        /\ \A i \in 1..Len(chats) : m.id \notin MsgIds(chats[i])
        /\ \A r \in pending : r.msg.id # m.id
        /\ m.status = st
        /\ new.lastMessage = m

\* C4 as the specification has it: when the user sends a message to a chat
\* of the store, then before any acknowledgement the chat holds exactly one
\* new message with a fresh local id and status pending, which is the last
\* entry and the lastMessage of the chat, and the chat is at index 0.
C4_OptimisticSendPending ==
    [][\A c \in ChatIds :
         (HandleSendMessage(c) /\ HasChat(chats, c)) => SendEffect(c, "pending")]_vars

\* C4 as the code has it: the same with status sent, the first status a
\* message of this client has.
C4_OptimisticSendSent ==
    [][\A c \in ChatIds :
         (HandleSendMessage(c) /\ HasChat(chats, c)) => SendEffect(c, "sent")]_vars

\* A send has acted on a chat that held a message already and stood behind
\* another chat: its message is the last entry and the lastMessage of the
\* first chat, and its acknowledgement is due.
C4_Witness ==
    /\ Len(chats) >= 2
    /\ Len(chats[1].messages) >= 2
    /\ \E r \in pending :
          /\ r.kind = "send_message"
          /\ r.sid = 0
          /\ r.chat = chats[1].id
          /\ r.msg.status = "sent"
          /\ chats[1].lastMessage = r.msg
          /\ chats[1].messages[Len(chats[1].messages)] = r.msg
          /\ CountId(chats[1].messages, r.msg.id) = 1

----------------------------------------------------------------------------
\* The last of the messages of ms other than the one with the given id.
LastOther(ms, id) == LastOf(SelectSeq(ms, LAMBDA m : m.id # id))

\* C5 as the specification has it: when {success: false, error: e} arrives
\* for a sent message that is in the store, its status becomes failed with
\* error reason e, its local id and its position are unchanged, and the
\* chat's lastMessage still refers to it if it did before.
FailureEffectClaimed(r, e) ==
    LET i == FindIndex(chats, r.chat)
        old == chats[i]
        new == chats'[i]
    IN  /\ new.id = old.id
        /\ Len(new.messages) = Len(old.messages)
        /\ \A j \in 1..Len(old.messages) :
              old.messages[j].id = r.msg.id =>
                  /\ new.messages[j].id = r.msg.id
                  /\ new.messages[j].status = "failed"
                  /\ new.messages[j].error = e
        /\ old.lastMessage.id = r.msg.id => new.lastMessage.id = r.msg.id

FailureEffect(r, e) ==
    LET i == FindIndex(chats, r.chat)
        old == chats[i]
        new == chats'[i]
    IN  /\ new.id = old.id
        /\ Len(new.messages) = Len(old.messages)
        /\ \A j \in 1..Len(old.messages) :
              new.messages[j] =
                  IF old.messages[j].id = r.msg.id
                  THEN [old.messages[j] EXCEPT
                            !.status = "none",
                            !.error = IF e = "" THEN "Failed to send" ELSE e]
                  ELSE old.messages[j]
        /\ new.lastMessage =
              IF old.lastMessage.id = r.msg.id
              THEN LastOther(old.messages, r.msg.id)
              ELSE old.lastMessage

----------------------------------------------------------------------------
\* What the success acknowledgement of the request r leaves: the chats are
\* the same but for the chat of r, whose messages are the same but for the
\* entries with the local id, which keep index, content, sender, timestamp
\* and type and have the confirmed id; no entry has the local id; and a
\* lastMessage with the local id has the confirmed id, any other is the same.
SuccessEffect(r, K) ==
    LET i == FindIndex(chats, r.chat)
        old == chats[i]
        new == chats'[i]
        L == r.msg.id
    IN  /\ Len(chats') = Len(chats)
        /\ \A x \in 1..Len(chats) : x # i => chats'[x] = chats[x]
        /\ new.id = old.id
        /\ new.unreadCount = old.unreadCount
        /\ Len(new.messages) = Len(old.messages)
        /\ \A j \in 1..Len(old.messages) :
              IF old.messages[j].id = L
              THEN /\ new.messages[j].id = K
                   /\ new.messages[j].content = old.messages[j].content
                   /\ new.messages[j].sender = old.messages[j].sender
                   /\ new.messages[j].ts = old.messages[j].ts
                   /\ new.messages[j].type = old.messages[j].type
              ELSE new.messages[j] = old.messages[j]
        /\ CountId(new.messages, L) = 0
        /\ IF old.lastMessage.id = L
           THEN new.lastMessage.id = K
           ELSE new.lastMessage = old.lastMessage

\* C6: when the success acknowledgement with confirmed id K arrives for a
\* sent message with local id L, the entry keeps its index, content, sender,
\* timestamp and type, its id becomes K, no entry with id L remains, a
\* lastMessage with id L has id K, and every other message and every other
\* chat is unchanged.
C6_ReplaceLocalIdFrame ==
    [][\A r \in pending :
         (AckSendMessage(r, "ok") /\ AnswersStored(r))
             => SuccessEffect(r, ConfirmedId(r))]_vars

\* A success acknowledgement has acted on a message that was sent before a
\* message of another participant arrived and was confirmed after it: the
\* entry with the later server id stands before the one with the earlier.
C6_Witness ==
    \E i \in 1..Len(chats) :
        LET ms == chats[i].messages IN
        /\ Len(ms) = 2
        /\ ms[1].id = ServerId(2)
        /\ ms[1].sender = Me
        /\ ms[1].status = "delivered"
        /\ ms[2].id = ServerId(1)
        /\ ms[2].sender = Other
        /\ chats[i].lastMessage = ms[2]

----------------------------------------------------------------------------
\* A sent message waits in the store: an entry with the n-th local id of a
\* text message that has no error text.
InFlight(n) ==
    \E i \in 1..Len(chats) :
        \E j \in 1..Len(chats[i].messages) :
            LET m == chats[i].messages[j] IN
            /\ m.id[1] = "temp_"
            /\ m.id[3] = n
            /\ m.error = ""

\* C7: every sent message eventually leaves the in-flight state: it is
\* confirmed (its id replaced) or marked failed, by a timeout when no
\* acknowledgement arrives; no message waits forever.
C7_EventuallyResolved ==
    \A n \in 1..MaxSize : InFlight(n) ~> ~InFlight(n)

----------------------------------------------------------------------------
\* C8: a receive_message with the id of a message the chat holds already
\* leaves the whole chat store as it was: messages, lastMessage, unreadCount
\* and the order of the chats, whatever happened since the first delivery.
C8_ReceiveTwiceIdempotent ==
    [][\A c \in ChatIds, k \in 1..MaxSize :
         (/\ ReceiveMessage(c, k)
          /\ HasChat(chats, c)
          /\ ServerId(k) \in MsgIds(ChatOf(chats, c)))
         => chats' = chats]_vars

----------------------------------------------------------------------------
\* The step is an operation that sets the lastMessage of the chat c of the
\* store: a send, the start or end of a call, a receive_message with a
\* message the chat does not hold.
SetsLastMessage(c) ==
    /\ HasChat(chats, c)
    /\ \/ HandleSendMessage(c)
       \/ HandleStartCall(c)
       \/ HandleEndCall(c)
       \/ \E k \in 1..MaxSize : /\ ReceiveMessage(c, k)
                                /\ ServerId(k) \notin MsgIds(ChatOf(chats, c))
       \/ \E r \in pending : r.chat = c /\ ReceiveOwnMessage(r)

\* C9: after every operation that sets the lastMessage of a chat (send,
\* start or end of a call, receive_message of a new message) the chat is at
\* index 0 and the other chats are in the order they were in.
C9_RecencyOrdering ==
    [][\A c \in ChatIds :
         SetsLastMessage(c) =>
             /\ chats'[1].id = c
             /\ IdOrder(WithoutChat(chats', c)) = IdOrder(WithoutChat(chats, c))]_vars

\* A send or call has moved the chat created first from the last place of
\* three to the first: group_created put each later chat before it, and no
\* other handler has arranged the chats while the listeners are registered.
C9_Witness ==
    /\ listening
    /\ IdOrder(chats) = <<"c1", "c3", "c2">>
    /\ chats[1].lastMessage # NoMessage
    /\ IsLocalId(chats[1].lastMessage.id)
    /\ Len(chats[1].messages) = 1

----------------------------------------------------------------------------
\* C10: in every reachable state the chats are in the order of their latest
\* activity, latest first: of two chats that have a lastMessage, the one
\* before the other has a lastMessage timestamp that is not the earlier.
C10_OrderedByActivity ==
    \A i, j \in 1..Len(chats) :
        (/\ i < j
         /\ chats[i].lastMessage # NoMessage
         /\ chats[j].lastMessage # NoMessage)
        => chats[i].lastMessage.ts >= chats[j].lastMessage.ts

----------------------------------------------------------------------------
\* C11: in every reachable state, lastMessage of a chat with messages is the
\* last entry of the messages (same id), and it is absent when the chat has
\* no messages; so after the acknowledgements of sends and calls.  Stated
\* here for the chats none of whose messages has an error text.
C11_LastMessageIsLastEntry ==
    \A i \in 1..Len(chats) :
        LET ms == chats[i].messages IN
        (\A j \in 1..Len(ms) : ms[j].error = "")
        => IF ms = <<>> THEN chats[i].lastMessage = NoMessage
           ELSE chats[i].lastMessage.id = ms[Len(ms)].id

----------------------------------------------------------------------------
\* The unreadCount of the chat c of cs.
UnreadOf(cs, c) == ChatOf(cs, c).unreadCount

\* The step is a receive_message for the chat c with a message whose id the
\* chat does not hold.
ReceivesNew(c) ==
    \/ \E k \in 1..MaxSize : /\ ReceiveMessage(c, k)
                             /\ ServerId(k) \notin MsgIds(ChatOf(chats, c))
    \/ \E r \in pending : r.chat = c /\ ReceiveOwnMessage(r)

----------------------------------------------------------------------------
\* C13: selecting a chat whose unreadCount is positive sets it to 0 and
\* emits exactly one mark_as_read for that chat; selecting a chat whose
\* unreadCount is 0 changes no chat and emits no mark_as_read.
C13_SelectMarksRead ==
    [][\A c \in ChatIds :
         HandleSelectChat(c) =>
             IF UnreadOf(chats, c) > 0
             THEN /\ UnreadOf(chats', c) = 0
                  /\ markRead' = <<c>>
             ELSE /\ chats' = chats
                  /\ markRead' = <<>>]_vars

\* A chat with unread messages has just been selected: one mark_as_read for
\* it has been emitted and its unreadCount is 0.
C13_Witness ==
    /\ markRead = <<selectedChatId>>
    /\ HasChat(chats, selectedChatId)
    /\ UnreadOf(chats, selectedChatId) = 0
    /\ ChatOf(chats, selectedChatId).messages # <<>>

----------------------------------------------------------------------------
\* C14: in every reachable state the selected chat has unreadCount 0, also
\* when initial_data, direct_chat_started or the create_group
\* acknowledgement made the selection.
C14_SelectedChatIsRead ==
    HasChat(chats, selectedChatId) => UnreadOf(chats, selectedChatId) = 0

----------------------------------------------------------------------------
\* C15: when the group_created broadcast for a group g and this client's own
\* create_group acknowledgement for g both arrive, in either order, the chat
\* list holds exactly one chat g.  Broadcast first: the acknowledgement finds
\* g in the list and leaves one.  Acknowledgement first: it leaves one g, and
\* the group_created updater applied to that list leaves one as well.
C15_GroupAddedOnce ==
    [][\A r \in pending :
         AckCreateGroup(r, "ok") =>
             LET g == selectedChatId' IN
             /\ CountId(chats', g) = 1
             /\ CountId(GroupCreatedStore(
                          chats', SrvChat(issued', g, srvOnline' \cup {Me})),
                        g) = 1]_vars

\* The broadcast for the own group arrived first and a message was received
\* in the group; then the acknowledgement arrived with the group as the
\* server created it and replaced the chat: one chat g, selected, without
\* the message the server holds for it.
C15_Witness ==
    /\ HasChat(chats, selectedChatId)
    /\ CountId(chats, selectedChatId) = 1
    /\ ChatOf(chats, selectedChatId).messages = <<>>
    /\ \E k \in 1..Len(issued) : /\ issued[k].chat = selectedChatId
                                  /\ issued[k].sender = Other
    /\ \A r \in pending : r.kind # "create_group"

----------------------------------------------------------------------------
\* C16: the chat list never holds two chats with the same id; so
\* direct_chat_started for a chat that is in the list leaves exactly one
\* chat with that id.
C16_UniqueChatIds ==
    \A i, j \in 1..Len(chats) : chats[i].id = chats[j].id => i = j

\* direct_chat_started has arrived for a chat that was in the list with a
\* message received and unread, in a session that has lost no connection and
\* has had no initial_data: the chat is there once, at the front and
\* selected, still unread as the server holds it.
C16_Witness ==
    /\ HasChat(chats, selectedChatId)
    /\ CountId(chats, selectedChatId) = 1
    /\ chats[1].id = selectedChatId
    /\ chats[1].unreadCount > 0
    /\ nLost = 0
    /\ \A i \in 1..Len(availableUsers) : availableUsers[i].id # Me

----------------------------------------------------------------------------
\* C17: on every loss of the connection that is not a logout, in whatever
\* state the session is, the chat list becomes empty, no chat is selected
\* and the presence of the users is the all-offline fallback.
C17_DisconnectResets ==
    [][Disconnect => /\ chats' = <<>>
                     /\ selectedChatId' = NoChat
                     /\ availableUsers' = InitialAvailableUsers]_vars

----------------------------------------------------------------------------
\* C18: every successful connect, the first and every reconnect, emits
\* exactly one request_initial_data.
C18_ConnectRequestsData ==
    [][Connect => bootReq' = bootReq + 1]_vars

----------------------------------------------------------------------------
----------------------------------------------------------------------------
\* C20: every receive_message that reaches the client while it is connected,
\* for a chat of the store and with an id the chat does not hold, leaves the
\* message in the chat, whatever selections, presence updates or initial_data
\* came before.
C20_ReceivedIsStored ==
    [][\A c \in ChatIds, k \in 1..MaxSize :
         (/\ HasChat(chats, c)
          /\ ServerId(k) \notin MsgIds(ChatOf(chats, c))
          /\ \/ ReceiveMessage(c, k)
             \/ k = Len(issued) + 1 /\ ReceiveMessageUnheard(c))
         => ServerId(k) \in MsgIds(ChatOf(chats', c))]_vars

----------------------------------------------------------------------------
\* The step is a receive_message for the chat c.
Receives(c) ==
    \/ \E k \in 1..MaxSize : ReceiveMessage(c, k)
    \/ \E r \in pending : r.chat = c /\ ReceiveOwnMessage(r)

\* The step is an initial_data.
IsInitialData ==
    \E allUsers \in {<<>>, <<User(Other, FALSE)>>},
       onlineUsers \in SUBSET UserIds : InitialData(allUsers, onlineUsers)

----------------------------------------------------------------------------
\* The request r is for a message this client has sent or a call it has
\* started or ended, the message is in its chat, and the server has not sent
\* it out.
AwaitsAck(r) ==
    /\ r.kind # "create_group"
    /\ r.sid = 0
    /\ HasChat(chats, r.chat)
    /\ r.msg.id \in MsgIds(ChatOf(chats, r.chat))

\* The step delivers a chat payload for the chat c: direct_chat_started,
\* the create_group acknowledgement or initial_data.
DeliversChat(c) ==
    \/ DirectChatStarted(c)
    \/ \E q \in pending : AckCreateGroup(q, "ok") /\ selectedChatId' = c
    \/ IsInitialData /\ HasChat(chats', c)

\* C22: when a chat payload arrives for a chat of the store that holds a
\* message sent from here and not acknowledged yet, the message is in the
\* chat's messages afterwards.
C22_PayloadKeepsUnacknowledged ==
    [][\A r \in pending :
         (AwaitsAck(r) /\ DeliversChat(r.chat))
         => r.msg.id \in MsgIds(ChatOf(chats', r.chat))]_vars

----------------------------------------------------------------------------
\* C23: the success acknowledgement of start_call and end_call puts the
\* confirmed id in the place of the local call id in the chat's messages and
\* in the chat's lastMessage: afterwards the chat refers to the local call id
\* nowhere.
C23_CallAckReplacesIdEverywhere ==
    [][\A r \in pending :
         (AckCall(r, "ok") /\ HasChat(chats, r.chat))
         => LET ch == ChatOf(chats', r.chat) IN
            /\ r.msg.id \notin MsgIds(ch)
            /\ ch.lastMessage.id # r.msg.id]_vars

----------------------------------------------------------------------------
\* C24: when the acknowledgement of start_call or end_call reports failure,
\* the call message of the store carries an error text afterwards, as a
\* failed send_message does.
C24_CallFailureMarked ==
    [][\A r \in pending :
         (AckCall(r, "") /\ AwaitsAck(r))
         => \E j \in 1..Len(ChatOf(chats', r.chat).messages) :
               LET m == ChatOf(chats', r.chat).messages[j] IN
               m.id = r.msg.id /\ m.error # ""]_vars

----------------------------------------------------------------------------
\* The chats after the acknowledgement of the send request r with the
\* outcome o, from the chats cs.
AfterSendAck(cs, r, o) ==
    IF o = "ok" THEN AckSendSuccess(cs, r.chat, r.msg.id, ConfirmedId(r))
    ELSE AckSendFailure(cs, r.chat, r.msg.id, o)

\* The message the server holds or will hold under the id k, as a
\* receive_message of the other user brings it.
BroadcastOfOther(k) ==
    Msg(ServerId(k), Other, "yo", now, "text", "sent", "")

\* C25: for a message Y sent from here and a receive_message for another
\* message X of the same chat, the acknowledgement of Y followed by the
\* receive_message gives the store that the receive_message followed by the
\* acknowledgement gives: messages, ids, statuses, lastMessage, unreadCount
\* and order of the chats.
C25_AckAndBroadcastCommute ==
    [][\A r \in pending, o \in {"ok", "offline", ""} :
         (AckSendMessage(r, o) /\ AwaitsAck(r))
         => \A k \in 1..(MaxSize + 1) :
               (/\ ServerId(k) # ConfirmedId(r)
                /\ ServerId(k) \notin MsgIds(ChatOf(chats, r.chat)))
               => ReceiveIntoChat(chats', r.chat, BroadcastOfOther(k),
                                  selectedChatId)
                  = AfterSendAck(ReceiveIntoChat(chats, r.chat,
                                                 BroadcastOfOther(k),
                                                 selectedChatId), r, o)]_vars

\* A message was sent, a message of the other user was received in the same
\* chat before the acknowledgement, and the acknowledgement confirmed the
\* sent message with the later id: the sent message comes first with its
\* confirmed id, the received one is the lastMessage and is unread.
C25_Witness ==
    \E i \in 1..Len(chats) :
        LET ms == chats[i].messages IN
        /\ Len(ms) = 2
        /\ ms[1].sender = Me /\ ms[1].id = ServerId(2)
        /\ ms[2].sender = Other /\ ms[2].id = ServerId(1)
        /\ chats[i].lastMessage.id = ServerId(1)
        /\ chats[i].unreadCount = 1

----------------------------------------------------------------------------
\* The local ids the client holds: of the messages of its chats and of its
\* requests.
LocalIdsHeld ==
    {id \in UNION {MsgIds(chats[i]) : i \in 1..Len(chats)} : IsLocalId(id)}
        \cup {r.msg.id : r \in {q \in pending : q.kind # "create_group"}}

\* The local id a send, start of a call or end of a call allocates on this
\* step, NoId on other steps.
AllocatedId ==
    IF \E c \in ChatIds : HandleSendMessage(c) THEN TempId(now, nLocal + 1)
    ELSE IF \E c \in ChatIds : HandleStartCall(c) THEN CallStartId(now)
    ELSE IF \E c \in ChatIds : HandleEndCall(c) THEN CallEndId(now)
    ELSE NoId

\* C30: the local id a send, start of a call or end of a call allocates
\* differs from every local id allocated before, also when two actions of
\* one kind read the same clock; so from every local id the client holds.
C30_LocalIdsDistinct ==
    [][AllocatedId # NoId => AllocatedId \notin LocalIdsHeld]_vars

----------------------------------------------------------------------------
\* C28: each send, start of a call or end of a call emits exactly one
\* request, for the local id it allocates, and no request has been emitted
\* for that local id before; no other step emits a request of a send or a
\* call: nothing is sent again after a failure, a disconnect or a reconnect.
C28_OneRequestPerLocalId ==
    [][IF AllocatedId # NoId
       THEN /\ \E r \in pending' \ pending :
                 /\ r.msg.id = AllocatedId
                 /\ pending' = pending \cup {r}
            /\ \A q \in pending :
                 q.kind # "create_group" => q.msg.id # AllocatedId
       ELSE \A r \in pending' :
                 r.kind # "create_group"
                 => \E q \in pending :
                       q.kind = r.kind /\ q.msg.id = r.msg.id /\ q.n = r.n]_vars

----------------------------------------------------------------------------
\* An acknowledgement callback has run for the local id: every emission for
\* a local id leaves one request and at most one message with that id, and
\* only the callback takes the request away, so there are more messages
\* with the id than requests for it.
AlreadyResolved(id) ==
    Cardinality({ij \in (1..Len(chats)) \X (1..MaxSize) :
                    /\ ij[2] <= Len(chats[ij[1]].messages)
                    /\ chats[ij[1]].messages[ij[2]].id = id})
      > Cardinality({q \in pending : q.kind # "create_group" /\ q.msg.id = id})

\* C29: an acknowledgement for a local id that an acknowledgement has
\* resolved before, with the same or the other outcome, leaves the chats as
\* they are.
C29_LateAckChangesNothing ==
    [][\A r \in pending, o \in {"ok", "offline", ""} :
         (/\ AlreadyResolved(r.msg.id)
          /\ AckSendMessage(r, o) \/ AckCall(r, o))
         => chats' = chats]_vars

----------------------------------------------------------------------------
\* The state of the client: of ChatterBoxApp, of its requests and of the
\* connection.
client == <<chats, selectedChatId, availableUsers, listening, connected,
            pending, bootReq, socketRef, sockets, nSockets, nLost>>

\* C26: a logout emits the logout notice on the connection it finds, closes
\* the connection and clears the reference to it, and counts as no loss of
\* the connection; until the next login no step changes the state of the
\* client; and the next login opens a connection that has not been open
\* before.
C26_LogoutIsTerminal ==
    [][/\ HandleLogout => /\ logoutSent' = <<Me>>
                          /\ socketRef' = NoSocket
                          /\ socketRef \notin sockets'
                          /\ ~connected'
                          /\ nLost' = nLost
       /\ (socketRef = NoSocket /\ socketRef' = NoSocket) => client' = client
       /\ (socketRef = NoSocket /\ socketRef' # NoSocket)
            => /\ socketRef' > nSockets
               /\ sockets' = {socketRef'}]_vars

\* The user has logged out and in again, and the second connection has
\* connected and received a group.
C26_Witness ==
    /\ nSockets = 2
    /\ socketRef = 2
    /\ sockets = {2}
    /\ connected
    /\ chats # <<>>

----------------------------------------------------------------------------
\* C27: at most one connection is open at any time; a run of the connection
\* setup after the selected chat or the current user has changed opens
\* none, and a connection is opened only by a login, after the logout has
\* closed the one before.
C27_OneConnection ==
    [][/\ Cardinality(sockets') <= 1
       /\ nSockets' # nSockets => (HandleLogin /\ sockets = {})]_vars

\* The effect has run again in a session, after a chat was selected: the
\* first connection is the only one.
C27_Witness ==
    /\ selectedChatId # NoChat
    /\ ~listening
    /\ socketRef = 1
    /\ sockets = {1}
    /\ nSockets = 1

----------------------------------------------------------------------------
\* The store has no message with the id in the chat, or has not the chat.
TargetAbsent(c, id) ==
    \/ ~HasChat(chats, c)
    \/ \A i \in 1..Len(chats) :
          chats[i].id = c => id \notin MsgIds(chats[i])

\* C31: a message_status_update that names a chat the store has not, or a
\* message id the chat has not, and an acknowledgement of a send_message,
\* with success or with failure, whose local message or chat the store has
\* no longer, leave the chats as they are: every chat, every message and the
\* order of the list, and the message is not created again.
C31_AbsentTargetIsNoOp ==
    [][chats' # chats =>
         /\ \A c \in ChatIds, k \in 1..MaxSize, st \in {"delivered", "read"} :
              TargetAbsent(c, ServerId(k)) => ~MessageStatusUpdate(c, k, st)
         /\ \A r \in pending, o \in {"ok", "offline", ""} :
              TargetAbsent(r.chat, r.msg.id) => ~AckSendMessage(r, o)]_vars

\* The server has accepted a message of this user for a chat that the store
\* holds without any message: the acknowledgement came after a reset of the
\* store had taken the local message away.
C31_Witness ==
    /\ pending = {}
    /\ nLost > 0
    /\ \E k \in 1..Len(issued) :
          /\ issued[k].sender = Me
          /\ HasChat(chats, issued[k].chat)
          /\ ChatOf(chats, issued[k].chat).messages = <<>>

----------------------------------------------------------------------------
\* C36: in every reachable state the selected chat id is none or the id of
\* a chat of the list, also after initial_data has replaced the list and
\* after the reset of a disconnect.
C36_SelectedChatExists ==
    selectedChatId = NoChat \/ HasChat(chats, selectedChatId)

\* After a loss of the connection and its reset, initial_data has filled
\* the list again and selected its first chat.
C36_Witness ==
    /\ nLost > 0
    /\ \E i \in 1..Len(availableUsers) : availableUsers[i].id = Me
    /\ chats # <<>>
    /\ selectedChatId = chats[1].id

----------------------------------------------------------------------------
\* The step emits one request for the chat, and the chat of the store holds
\* a message with the local id of that request.
EmitsWithMessage(c) ==
    /\ HasChat(chats', c)
    /\ \E r \in pending' :
          /\ pending' = pending \cup {r}
          /\ r.chat = c
          /\ r.msg.id \in MsgIds(ChatOf(chats', c))
          /\ Len(ChatOf(chats', c).messages)
               = Len(ChatOf(chats, c).messages) + 1

\* C37: a send, a start of a call and an end of a call for a chat of the
\* list append a message with a local id and emit one request with that
\* message; for a chat that is not in the list they leave the store as it
\* is and emit no request.
C37_RequestOnlyWithMessage ==
    [][\A c \in ChatIds :
         (HandleSendMessage(c) \/ HandleStartCall(c) \/ HandleEndCall(c))
         => IF HasChat(chats, c)
            THEN EmitsWithMessage(c)
            ELSE chats' = chats /\ pending' = pending]_vars

----------------------------------------------------------------------------
----------------------------------------------------------------------------
\* C32: a server_error and a connect_error leave the chat list, every
\* message, the presence of every user and the selected chat as they are.
C32_ErrorsLeaveStore ==
    [][(ServerError \/ ConnectError)
         => UNCHANGED <<chats, availableUsers, selectedChatId>>]_vars

\* An attempt to connect has failed, which ended the loading; then the
\* socket has connected and a chat has come in, with the listeners still
\* there for a server_error.
C32_Witness ==
    /\ nLost = 0
    /\ ~isLoadingData
    /\ connected
    /\ listening
    /\ chats # <<>>

----------------------------------------------------------------------------
\* C38: when an initial_data has been processed, the loading flag is false.
C38_LoadedAfterInitialData ==
    [][IsInitialData => ~isLoadingData']_vars

----------------------------------------------------------------------------
\* The users of the sequence other than u are the same in us and vs.
SameButUser(us, vs, u) ==
    /\ Len(vs) = Len(us)
    /\ \A i \in 1..Len(us) : vs[i].id = us[i].id
    /\ \A i \in 1..Len(us) : us[i].id # u => vs[i] = us[i]

----------------------------------------------------------------------------
\* C34: in every reachable state each copy of a user among the participants
\* of a chat has the isOnline of the presence record kept for that user.
C34_CopiesMatchPresence ==
    \A i \in 1..Len(chats) : \A j \in 1..Len(chats[i].participants) :
       \A n \in 1..Len(availableUsers) :
          availableUsers[n].id = chats[i].participants[j].id
          => availableUsers[n].isOnline = chats[i].participants[j].isOnline

----------------------------------------------------------------------------
\* C39: when the timer of a started call runs while the call is going on,
\* it ends the call: an end_call for the chat of the call is emitted and the
\* ongoing-call flag is false afterwards.
C39_TimerEndsCall ==
    [][(CallTimer /\ isCalling)
         => /\ ~isCalling'
            /\ \E r \in pending' \ pending :
                  r.kind = "end_call" /\ r.chat = Head(timers).chat]_vars

====
